---- MODULE Spec2Model ----
(***************************************************************************)
(* The /translate request handler of app.py and the functions it calls:    *)
(* recognize_speech (capture queue q), translate_text (direct and two-step *)
(* translation over lang_dict) and speak_text (the three TTS backends,     *)
(* playback and temp-file cleanup).                                        *)
(*                                                                         *)
(* Strings are sequences of tokens: "" is <<>>, so Python's `not text` is  *)
(* text = <<>>.  The temp files of one speak_text call are a function fs   *)
(* from path to size whose DOMAIN is the set of paths that exist.          *)
(***************************************************************************)
EXTENDS Naturals, Sequences, FiniteSets, TLC

VARIABLES
    lang_dict,      \* codes of the installed translation languages
    q,              \* the module-level capture queue: frames tagged by session
    pc,             \* position of the handler
    source_code, target_code,
    streamOpen,     \* the sd.RawInputStream context is open
    captured,       \* capture was started during this request
    recognized, translated,
    trOutcome,      \* which path translate_text returned through
    calls,          \* translation-capability invocations of this request
    fs,             \* temp files of the current speak_text call: path -> size
    tempBefore,     \* temp files on disk when speak_text was entered
    tts_success,
    attempts,       \* backend attempts of this speak_text call, in order
    plays,          \* playbacks started in this speak_text call
    playing,        \* pygame.mixer.music is busy
    played,         \* playback ran to completion
    mixerHolds,     \* the mixer was left initialised with the file loaded
    printed,        \* the textual fallback was printed
    ret,            \* outcome of speak_text
    response        \* the JSON body returned by the handler

vars == <<lang_dict, q, pc, source_code, target_code, streamOpen, captured,
          recognized, translated, trOutcome, calls, fs,
          tempBefore, tts_success, attempts, plays, playing, played,
          mixerHolds, printed, ret, response>>

-----------------------------------------------------------------------------
(* Bounds of the model *)

\* frames the model lets accumulate in q (queue.Queue() itself is unbounded)
MaxQueue == 1

(* Program constants *)

\* the minimum artifact size of the existence-and-size check
MIN_SIZE == 1000

\* language codes of LANGUAGES that the model ranges over
LANGUAGES == {"en", "hi", "es"}

\* artifact sizes a backend may leave: empty, at the threshold, above it
Sizes == {0, MIN_SIZE, MIN_SIZE + 1}

\* texts the recognizer may finalise
RecTexts == {<<>>, <<"hello">>}

NoText == <<"<unset>">>
NoResponse == [pending |-> TRUE]

-----------------------------------------------------------------------------
(* translate_text *)

\* output of the installed from->to capability on text
Translate(text, from, to) == text \o <<from, to>>

Call(text, from, to) == [from |-> from, to |-> to, text |-> text]

FailedText(cause) == <<"[Translation Failed:", cause, "]">>

NotInstalledText(code) == <<"[Translation failed:", code, "language not installed]">>

InstalledAlways(code) == TRUE

\* `source in lang_dict`, `target in lang_dict`
Installed(code) == code \in lang_dict

SameLanguageNever(source, target) == FALSE

\* `if source == target:`
SameLanguage(source, target) == source = target

PivotApplicableAlways(source, target) == TRUE

\* `if source != "en" and target != "en":`
PivotApplicable(source, target) == source # "en" /\ target # "en"

RaisedErrorLast(direct_error, two_step_error) == two_step_error

\* `raise direct_error` after the two-step attempt failed: the error that
\* reaches the outer except and is formatted into the returned string
RaisedError(direct_error, two_step_error) == direct_error

SecondHopInputOriginal(text, english_text) == text

\* `target_translation.translate(english_text)`: what the second hop is fed
SecondHopInput(text, english_text) == english_text

\* d, h1, h2: whether the direct, first-hop and second-hop capability succeed
translate_text(text, source, target, d, h1, h2) ==
    IF text = <<>>
    THEN [result |-> <<"No text recognized">>, outcome |-> "empty", calls |-> <<>>]
    ELSE IF SameLanguage(source, target)
    THEN [result |-> text, outcome |-> "identity", calls |-> <<>>]
    ELSE IF ~Installed(source)
    THEN [result |-> NotInstalledText(source), outcome |-> "missing", calls |-> <<>>]
    ELSE IF ~Installed(target)
    THEN [result |-> NotInstalledText(target), outcome |-> "missing", calls |-> <<>>]
    ELSE IF d
    THEN [result |-> Translate(text, source, target), outcome |-> "direct",
          calls |-> <<Call(text, source, target)>>]
    ELSE IF PivotApplicable(source, target)
    THEN IF "en" \notin lang_dict
         THEN [result |-> FailedText(RaisedError("direct_error", "two_step_error")),
               outcome |-> "failed",
               calls |-> <<Call(text, source, target)>>]
         ELSE IF ~h1
         THEN [result |-> FailedText(RaisedError("direct_error", "two_step_error")),
               outcome |-> "failed",
               calls |-> <<Call(text, source, target), Call(text, source, "en")>>]
         ELSE IF ~h2
         THEN [result |-> FailedText(RaisedError("direct_error", "two_step_error")),
               outcome |-> "failed",
               calls |-> <<Call(text, source, target), Call(text, source, "en"),
                           Call(SecondHopInput(text, Translate(text, source, "en")), "en", target)>>]
         ELSE [result |-> Translate(SecondHopInput(text, Translate(text, source, "en")),
                                    "en", target),
               outcome |-> "pivot",
               calls |-> <<Call(text, source, target), Call(text, source, "en"),
                           Call(SecondHopInput(text, Translate(text, source, "en")), "en", target)>>]
    ELSE [result |-> FailedText("direct_error"), outcome |-> "failed",
          calls |-> <<Call(text, source, target)>>]

-----------------------------------------------------------------------------
(* Temp files *)

Exists(f, p) == p \in DOMAIN f

WriteFile(f, p, size) == [x \in DOMAIN f \cup {p} |-> IF x = p THEN size ELSE f[x]]

Unlink(f, p) == [x \in DOMAIN f \ {p} |-> f[x]]

\* temp files of this request that are on disk
TempCount == Cardinality(DOMAIN fs)

\* what a backend call does to the artifact path: leave it as it is, remove
\* it, or (re)write it with some size
Effects == [kind : {"keep", "remove"}, size : {0}] \cup [kind : {"write"}, size : Sizes]

Apply(f, p, e) ==
    IF e.kind = "keep" THEN f
    ELSE IF e.kind = "remove" THEN Unlink(f, p)
    ELSE WriteFile(f, p, e.size)

VerifiedArtifactAtLeast(f) == Exists(f, "wav") /\ f["wav"] >= MIN_SIZE

\* os.path.exists(temp_filename) and os.path.getsize(temp_filename) > 1000
VerifiedArtifact(f) == Exists(f, "wav") /\ f["wav"] > MIN_SIZE

ShouldTryAlways(success) == TRUE

\* `if not tts_success:` in front of each backend
ShouldTry(success) == ~success

ShouldPlayAlways(success) == TRUE

\* `if tts_success:` in front of playback
ShouldPlay(success) == success

\* the record of one backend attempt: whether the backend itself wrote the
\* artifact, whether it reported an error, the artifact after its call, and
\* whether the attempt counted as successful
Attempt(backend, e, f, err, ok) ==
    [backend |-> backend, wrote |-> e.kind = "write", err |-> err,
     exists |-> Exists(f, "wav"),
     size |-> IF Exists(f, "wav") THEN f["wav"] ELSE 0,
     ok |-> ok]

-----------------------------------------------------------------------------
Init ==
    /\ lang_dict \in SUBSET LANGUAGES
    /\ q = <<>>
    /\ pc = "idle"
    /\ source_code = "en" /\ target_code = "en"
    /\ streamOpen = FALSE /\ captured = FALSE
    /\ recognized = NoText /\ translated = NoText
    /\ trOutcome = "none" /\ calls = <<>>
    /\ fs = <<>> /\ tempBefore = 0
    /\ tts_success = FALSE /\ attempts = <<>>
    /\ plays = 0 /\ playing = FALSE /\ played = FALSE /\ mixerHolds = FALSE
    /\ printed = FALSE /\ ret = "unset"
    /\ response = NoResponse

speakVars == <<fs, tempBefore, tts_success, attempts, plays, playing, played,
               mixerHolds, printed, ret>>
transVars == <<translated, trOutcome, calls>>
reqVars == <<source_code, target_code>>
capVars == <<q, streamOpen, captured>>

Old(frames) == [i \in 1..Len(frames) |-> "old"]

\* POST /translate arrives: source and target are read from the body
Request ==
    /\ pc \in {"idle", "done"}
    /\ \E s \in LANGUAGES, t \in LANGUAGES :
          /\ source_code' = s
          /\ target_code' = t
    /\ pc' = "check_model"
    /\ q' = Old(q)
    /\ fs' = <<>>
    /\ streamOpen' = FALSE /\ captured' = FALSE
    /\ recognized' = NoText /\ translated' = NoText
    /\ trOutcome' = "none" /\ calls' = <<>>
    /\ tempBefore' = 0
    /\ tts_success' = FALSE /\ attempts' = <<>>
    /\ plays' = 0 /\ playing' = FALSE /\ played' = FALSE /\ mixerHolds' = FALSE
    /\ printed' = FALSE /\ ret' = "unset"
    /\ response' = NoResponse
    /\ UNCHANGED lang_dict

\* the recognition model's directory is looked up, then the model is loaded
CheckModel ==
    /\ pc = "check_model"
    /\ \E found \in BOOLEAN, loaded \in BOOLEAN :
          IF ~found
          THEN /\ response' = [error |-> <<"Model not found", source_code>>]
               /\ pc' = "done"
          ELSE IF ~loaded
          THEN /\ response' = [error |-> <<"Failed to create model">>]
               /\ pc' = "done"
          ELSE /\ response' = response
               /\ pc' = "open_stream"
    /\ UNCHANGED <<lang_dict, recognized>>
    /\ UNCHANGED <<reqVars, capVars, transVars, speakVars>>

\* recognize_speech enters the RawInputStream context (or the device fails)
OpenStream ==
    /\ pc = "open_stream"
    /\ \E ok \in BOOLEAN :
          IF ok
          THEN /\ streamOpen' = TRUE
               /\ captured' = TRUE
               /\ pc' = "listening"
               /\ response' = response
          ELSE /\ UNCHANGED <<streamOpen, captured>>
               /\ pc' = "done"
               /\ response' = [error |-> <<"Error in translation route">>]
    /\ UNCHANGED <<lang_dict, q, recognized>>
    /\ UNCHANGED <<reqVars, transVars, speakVars>>

\* q = queue.Queue(): the maxsize argument is left at its default, 0, which
\* queue.Queue takes as "no limit"
QueueMaxsize == 0

\* q.put(item) blocks while a limit is set and the queue holds that many items
PutBlocks(queue) == QueueMaxsize > 0 /\ Len(queue) >= QueueMaxsize

\* audio_callback: the audio thread puts one frame
AudioCallback ==
    /\ streamOpen
    /\ ~PutBlocks(q)
    /\ Len(q) < MaxQueue
    /\ q' = Append(q, "cur")
    /\ UNCHANGED <<lang_dict, pc, streamOpen, captured, recognized, response>>
    /\ UNCHANGED <<reqVars, transVars, speakVars>>

\* data = q.get(): blocks while q is empty
QueueGet ==
    /\ pc = "listening"
    /\ q # <<>>
    /\ q' = Tail(q)
    /\ pc' = "accept"
    /\ UNCHANGED <<lang_dict, streamOpen, captured, recognized, response>>
    /\ UNCHANGED <<reqVars, transVars, speakVars>>

LoopExitsNever(boundary) == FALSE

\* `if recognizer.AcceptWaveform(data): ... return`: the only way out of the
\* `while True` loop; there is no timeout and no frame count
LoopExits(boundary) == boundary

\* recognizer.AcceptWaveform(data): on an utterance boundary the text is
\* returned and the stream context is left, otherwise the loop goes on
AcceptWaveform ==
    /\ pc = "accept"
    /\ \E boundary \in BOOLEAN, text \in RecTexts :
          IF LoopExits(boundary)
          THEN /\ recognized' = text
               /\ streamOpen' = FALSE
               /\ pc' = "check_langs"
          ELSE /\ UNCHANGED <<recognized, streamOpen>>
               /\ pc' = "listening"
    /\ UNCHANGED <<lang_dict, q, captured, response>>
    /\ UNCHANGED <<reqVars, transVars, speakVars>>

MissingModels ==
    {c \in {source_code, target_code} : c \notin lang_dict}

\* `if source_code in lang_dict and target_code in lang_dict:` and its else
CheckLangs ==
    /\ pc = "check_langs"
    /\ IF source_code \in lang_dict /\ target_code \in lang_dict
       THEN /\ pc' = "translate_text"
            /\ response' = response
       ELSE /\ pc' = "done"
            /\ response' = [error |-> <<"Missing translation models">>,
                            recognized |-> recognized,
                            can_translate |-> FALSE,
                            missing_models |-> MissingModels]
    /\ UNCHANGED <<lang_dict, recognized>>
    /\ UNCHANGED <<reqVars, capVars, transVars, speakVars>>

DictAfterLookupInserting(d, keys) == d \cup keys

\* lang_dict after the subscriptions lang_dict[key]: a plain dict is not
\* changed by being read, whether or not the key is present
DictAfterLookup(d, keys) == d

\* the keys translate_text subscripts lang_dict with on the way to result r:
\* source and target for the direct attempt, "en" for the two-step attempt
LookedUp(source, target, r) ==
    IF r.calls = <<>> THEN {}
    ELSE {source, target} \cup
         (IF r.outcome \in {"failed", "pivot"} /\ PivotApplicable(source, target)
          THEN {"en"} ELSE {})

\* translated = translate_text(recognized, source_code, target_code)
TranslateText ==
    /\ pc = "translate_text"
    /\ \E d \in BOOLEAN, h1 \in BOOLEAN, h2 \in BOOLEAN :
          LET r == translate_text(recognized, source_code, target_code, d, h1, h2)
          IN /\ translated' = r.result
             /\ trOutcome' = r.outcome
             /\ calls' = r.calls
             /\ lang_dict' = DictAfterLookup(lang_dict,
                                 LookedUp(source_code, target_code, r))
    /\ pc' = "speak_text"
    /\ UNCHANGED <<recognized, response>>
    /\ UNCHANGED <<reqVars, capVars, speakVars>>

-----------------------------------------------------------------------------
(* speak_text(translated, target_code) *)

NoTextToSpeakNever(text) == FALSE

\* `if not text:` at the top of speak_text
NoTextToSpeak(text) == text = <<>>

\* `if not text: return`, else the .wav temp file is created (empty) and closed
SpeakEnter ==
    /\ pc = "speak_text"
    /\ IF NoTextToSpeak(translated)
       THEN /\ ret' = "None"
            /\ pc' = "respond"
            /\ UNCHANGED <<fs, tempBefore, tts_success>>
       ELSE \E created \in BOOLEAN :
               IF created
               THEN /\ tempBefore' = TempCount
                    /\ fs' = WriteFile(fs, "wav", 0)
                    /\ tts_success' = FALSE
                    /\ ret' = ret
                    /\ pc' = "tts_ms"
               ELSE /\ ret' = "raised"
                    /\ pc' = "except"
                    /\ UNCHANGED <<fs, tempBefore, tts_success>>
    /\ UNCHANGED <<lang_dict, recognized, response, attempts, plays,
                   playing, played, mixerHolds, printed>>
    /\ UNCHANGED <<reqVars, capVars, transVars>>

\* 1. ms_speak: any exception is caught inside it and turned into False
TryMs ==
    /\ pc = "tts_ms"
    /\ IF ShouldTry(tts_success)
       THEN \E raised \in BOOLEAN, e \in Effects :
               LET f == Apply(fs, "wav", e)
                   ok == ~raised /\ VerifiedArtifact(f)
               IN /\ fs' = f
                  /\ tts_success' = ok
                  /\ attempts' = Append(attempts, Attempt("ms", e, f, raised, ok))
       ELSE UNCHANGED <<fs, tts_success, attempts>>
    /\ pc' = "tts_espeak"
    /\ UNCHANGED <<lang_dict, recognized, response, tempBefore, plays,
                   playing, played, mixerHolds, printed, ret>>
    /\ UNCHANGED <<reqVars, capVars, transVars>>

\* how the eSpeak block can go: the text file cannot be created; subprocess.run
\* raises (the executable is not at ESPEAK_PATH); the process exits non-zero;
\* the process exits zero
EspeakOutcomes == {"mktemp_raises", "run_raises", "nonzero", "zero"}

\* 2. eSpeak
TryEspeak ==
    /\ pc = "tts_espeak"
    /\ IF ShouldTry(tts_success)
       THEN \E out \in EspeakOutcomes, e \in Effects :
               /\ out \in {"mktemp_raises", "run_raises"} => e.kind = "keep"
               /\ LET f == Apply(fs, "wav", e)
                      g == IF out = "run_raises" THEN WriteFile(f, "txt", 1) ELSE f
                      ok == out = "zero" /\ VerifiedArtifact(f)
                  IN /\ fs' = g
                     /\ tts_success' = ok
                     /\ attempts' = Append(attempts, Attempt("espeak", e, f, out # "zero", ok))
       ELSE UNCHANGED <<fs, tts_success, attempts>>
    /\ pc' = "tts_pyttsx3"
    /\ UNCHANGED <<lang_dict, recognized, response, tempBefore, plays,
                   playing, played, mixerHolds, printed, ret>>
    /\ UNCHANGED <<reqVars, capVars, transVars>>

\* 3. pyttsx3
TryPyttsx3 ==
    /\ pc = "tts_pyttsx3"
    /\ IF ShouldTry(tts_success)
       THEN \E raised \in BOOLEAN, e \in Effects :
               LET f == Apply(fs, "wav", e)
                   ok == ~raised /\ VerifiedArtifact(f)
               IN /\ fs' = f
                  /\ tts_success' = ok
                  /\ attempts' = Append(attempts, Attempt("pyttsx3", e, f, raised, ok))
       ELSE UNCHANGED <<fs, tts_success, attempts>>
    /\ pc' = "play"
    /\ UNCHANGED <<lang_dict, recognized, response, tempBefore, plays,
                   playing, played, mixerHolds, printed, ret>>
    /\ UNCHANGED <<reqVars, capVars, transVars>>

\* mixer.init(), music.load(), music.play(): all three succeed, init raises,
\* or load/play raises with the mixer initialised
PlayOutcomes == {"ok", "init_raises", "play_raises"}

AfterPlayStartedNoWait == "cleanup"

\* where control goes once music.play() has returned: the get_busy() loop
AfterPlayStarted == "play_wait"

SuccessAfterPlaybackErrorKept(success) == success

\* `tts_success = False` in the except around playback
SuccessAfterPlaybackError(success) == FALSE

PlayStart ==
    /\ pc = "play"
    /\ IF ShouldPlay(tts_success)
       THEN /\ plays' = plays + 1
            /\ \E out \in PlayOutcomes :
                  IF out = "ok"
                  THEN /\ playing' = TRUE
                       /\ mixerHolds' = TRUE
                       /\ tts_success' = tts_success
                       /\ pc' = AfterPlayStarted
                  ELSE /\ playing' = FALSE
                       /\ mixerHolds' = (out = "play_raises")
                       /\ tts_success' = SuccessAfterPlaybackError(tts_success)
                       /\ pc' = "cleanup"
       ELSE /\ pc' = "cleanup"
            /\ UNCHANGED <<plays, playing, mixerHolds, tts_success>>
    /\ UNCHANGED <<lang_dict, recognized, response, fs, tempBefore,
                   attempts, played, printed, ret>>
    /\ UNCHANGED <<reqVars, capVars, transVars>>

\* the get_busy() loop ends, then mixer.quit()
PlayWait ==
    /\ pc = "play_wait"
    /\ playing' = FALSE
    /\ played' = TRUE
    /\ mixerHolds' = FALSE
    /\ pc' = "cleanup"
    /\ UNCHANGED <<lang_dict, recognized, response, fs, tempBefore,
                   tts_success, attempts, plays, printed, ret>>
    /\ UNCHANGED <<reqVars, capVars, transVars>>

\* `if os.path.exists(temp_filename): os.unlink(temp_filename)` in a try: the
\* unlink can fail while the mixer still has the file loaded
Cleanup ==
    /\ pc = "cleanup"
    /\ IF Exists(fs, "wav")
       THEN \E unlinked \in BOOLEAN :
               /\ ~unlinked => mixerHolds
               /\ fs' = IF unlinked THEN Unlink(fs, "wav") ELSE fs
       ELSE fs' = fs
    /\ pc' = "fallback"
    /\ UNCHANGED <<lang_dict, recognized, response, tempBefore,
                   tts_success, attempts, plays, playing, played, mixerHolds,
                   printed, ret>>
    /\ UNCHANGED <<reqVars, capVars, transVars>>

\* `if not tts_success: print(...)`, then `return tts_success`
SpeakReturn ==
    /\ pc = "fallback"
    /\ printed' = ~tts_success
    /\ ret' = IF tts_success THEN "True" ELSE "False"
    /\ pc' = "respond"
    /\ UNCHANGED <<lang_dict, recognized, response, fs, tempBefore,
                   tts_success, attempts, plays, playing, played, mixerHolds>>
    /\ UNCHANGED <<reqVars, capVars, transVars>>

SuccessResponseEcho(rec, tr) == [recognized |-> rec, translated |-> rec]

\* the body of the normal response
SuccessResponse(rec, tr) == [recognized |-> rec, translated |-> tr]

\* return jsonify({"recognized": recognized, "translated": translated})
Respond ==
    /\ pc = "respond"
    /\ response' = SuccessResponse(recognized, translated)
    /\ pc' = "done"
    /\ UNCHANGED <<lang_dict, recognized>>
    /\ UNCHANGED <<reqVars, capVars, transVars, speakVars>>

\* `except Exception as translation_error:` around translate_text and speak_text
HandleException ==
    /\ pc = "except"
    /\ response' = [error |-> <<"Translation failed">>,
                    recognized |-> recognized,
                    can_translate |-> FALSE]
    /\ pc' = "done"
    /\ UNCHANGED <<lang_dict, recognized>>
    /\ UNCHANGED <<reqVars, capVars, transVars, speakVars>>

\* GET /check_models: reads MODEL_PATHS, subscripts lang_dict with the codes
\* found in it, and lists the pyttsx3 voices
CheckModels ==
    /\ lang_dict' = DictAfterLookup(lang_dict, lang_dict \cap LANGUAGES)
    /\ UNCHANGED <<pc, recognized, response>>
    /\ UNCHANGED <<reqVars, capVars, transVars, speakVars>>

\* GET /check_espeak: runs the eSpeak executable; touches none of the state
\* the other handlers use
CheckEspeak ==
    UNCHANGED vars

Next ==
    \/ Request
    \/ CheckModel
    \/ OpenStream
    \/ AudioCallback
    \/ QueueGet
    \/ AcceptWaveform
    \/ CheckLangs
    \/ TranslateText
    \/ SpeakEnter
    \/ TryMs
    \/ TryEspeak
    \/ TryPyttsx3
    \/ PlayStart
    \/ PlayWait
    \/ Cleanup
    \/ SpeakReturn
    \/ Respond
    \/ HandleException
    \/ CheckModels
    \/ CheckEspeak

Spec == Init /\ [][Next]_vars

-----------------------------------------------------------------------------
(* translate_text on its own: called with any text and any pair of codes,  *)
(* whatever lang_dict holds                                                *)

\* texts translate_text may be handed
TranslateTexts == {<<>>, <<"hello">>, <<"hello", "world">>}

InitTranslate ==
    /\ lang_dict \in SUBSET LANGUAGES
    /\ q = <<>>
    /\ pc = "translate_text"
    /\ source_code \in LANGUAGES /\ target_code \in LANGUAGES
    /\ streamOpen = FALSE /\ captured = FALSE
    /\ recognized \in TranslateTexts /\ translated = NoText
    /\ trOutcome = "none" /\ calls = <<>>
    /\ fs = <<>> /\ tempBefore = 0
    /\ tts_success = FALSE /\ attempts = <<>>
    /\ plays = 0 /\ playing = FALSE /\ played = FALSE /\ mixerHolds = FALSE
    /\ printed = FALSE /\ ret = "unset"
    /\ response = NoResponse

SpecTranslate == InitTranslate /\ [][TranslateText]_vars

-----------------------------------------------------------------------------
(* The handler under the scheduling the request thread and the audio thread
   get: the request thread always takes its next step when it has one (every
   backend call and the playback terminate), the audio device keeps delivering
   frames while the stream is open, and the recognizer, asked again and again,
   eventually reports an utterance boundary *)

HandlerStep ==
    \/ CheckModel
    \/ OpenStream
    \/ QueueGet
    \/ AcceptWaveform
    \/ CheckLangs
    \/ TranslateText
    \/ SpeakEnter
    \/ TryMs
    \/ TryEspeak
    \/ TryPyttsx3
    \/ PlayStart
    \/ PlayWait
    \/ Cleanup
    \/ SpeakReturn
    \/ Respond
    \/ HandleException

AcceptBoundary == AcceptWaveform /\ pc' = "check_langs"

SpecLive ==
    /\ Init
    /\ [][Next]_vars
    /\ WF_vars(HandlerStep)
    /\ WF_vars(AudioCallback)
    /\ SF_vars(AcceptBoundary)

-----------------------------------------------------------------------------
(* speak_text on its own: called with any text, the empty one included *)

\* texts speak_text may be handed
SpeakTexts == {<<>>, <<"hola">>}

InitSpeak ==
    /\ lang_dict = LANGUAGES
    /\ q = <<>>
    /\ pc = "speak_text"
    /\ source_code = "en" /\ target_code \in LANGUAGES
    /\ streamOpen = FALSE /\ captured = FALSE
    /\ recognized = NoText /\ translated \in SpeakTexts
    /\ trOutcome = "none" /\ calls = <<>>
    /\ fs = <<>> /\ tempBefore = 0
    /\ tts_success = FALSE /\ attempts = <<>>
    /\ plays = 0 /\ playing = FALSE /\ played = FALSE /\ mixerHolds = FALSE
    /\ printed = FALSE /\ ret = "unset"
    /\ response = NoResponse

NextSpeak ==
    \/ SpeakEnter
    \/ TryMs
    \/ TryEspeak
    \/ TryPyttsx3
    \/ PlayStart
    \/ PlayWait
    \/ Cleanup
    \/ SpeakReturn

SpecSpeak == InitSpeak /\ [][NextSpeak]_vars

-----------------------------------------------------------------------------
(* Properties *)

\* speak_text has returned (not raised) for a non-empty text
SpeakReturned == pc \in {"respond", "done"} /\ ret \in {"True", "False"}

\* the backends have all had their turn
AfterBackends == pc \in {"play", "play_wait", "cleanup", "fallback"} \/ SpeakReturned

SomeVerified == \E i \in 1..Len(attempts) : attempts[i].ok

AllFailed == Len(attempts) = 3 /\ \A i \in 1..3 : ~attempts[i].ok

BackendOrder == <<"ms", "espeak", "pyttsx3">>

\* C1: when speak_text has returned for a non-empty text, the number of temp
\* files on disk equals the number on disk when it was entered (the .wav
\* artifact and the eSpeak text file are both gone), on every exit path.
C1_TempFilesDeleted ==
    SpeakReturned => TempCount = tempBefore

\* C2: an attempt counts as successful only if the artifact exists after the
\* backend's call and is larger than 1000 bytes; tts_success is set exactly
\* when some attempt counted; and when no attempt counted, every backend in
\* the order was tried.
C2_SuccessOnlyIfVerified ==
    /\ \A i \in 1..Len(attempts) :
          attempts[i].ok => (attempts[i].exists /\ attempts[i].size > 1000)
    /\ pc = "play" => (tts_success <=> SomeVerified)
    /\ (AfterBackends /\ ~SomeVerified) => Len(attempts) = 3

\* a backend reported no error but left an artifact of exactly the threshold
\* size: it did not count and the next backend was tried
C2_Witness ==
    \E i \in 1..Len(attempts) :
        /\ ~attempts[i].err /\ attempts[i].exists /\ attempts[i].size = 1000
        /\ ~attempts[i].ok
        /\ Len(attempts) > i

\* C3: backends are attempted in the order ms, espeak, pyttsx3; only the last
\* attempt made can be a verified one (a backend runs only after all earlier
\* ones failed, none runs after a verified one); playback is started only
\* after a verified attempt, and once the backends are done with a verified
\* attempt playback has been started exactly once.
C3_FixedOrder ==
    /\ Len(attempts) <= 3
    /\ \A i \in 1..Len(attempts) : attempts[i].backend = BackendOrder[i]
    /\ \A i \in 1..Len(attempts) : attempts[i].ok => i = Len(attempts)
    /\ plays > 0 => SomeVerified
    /\ (SomeVerified /\ pc \in {"play_wait", "cleanup", "fallback", "respond", "done"})
          => plays = 1

\* eSpeak was verified after the Microsoft API failed: pyttsx3 never ran and
\* the artifact was played
C3_Witness ==
    /\ pc = "done"
    /\ Len(attempts) = 2 /\ ~attempts[1].ok /\ attempts[2].ok
    /\ plays = 1 /\ played

\* C4: an attempt counts as successful only on what that backend wrote: a file
\* left by an earlier failed backend never makes a later attempt count.
C4_FreshArtifact ==
    \A i \in 1..Len(attempts) : attempts[i].ok => attempts[i].wrote

\* C5: when all three backends have failed, speak_text does not raise, starts
\* no playback, and returns False with the text printed and no artifact left.
C5_DegradedNotRaised ==
    AllFailed =>
        /\ pc # "except" /\ ret # "raised"
        /\ plays = 0 /\ ~playing /\ ~played
        /\ pc \in {"respond", "done"} =>
              (ret = "False" /\ printed /\ ~Exists(fs, "wav"))

C5_Witness ==
    AllFailed /\ pc = "done" /\ printed /\ "translated" \in DOMAIN response

\* speak_text has been called and has not yet returned or raised
InSpeakText ==
    pc \in {"speak_text", "tts_ms", "tts_espeak", "tts_pyttsx3", "play",
            "play_wait", "cleanup", "fallback"}

\* C6: when the recognized text is empty, no translation capability is
\* invoked, no TTS backend is invoked, no temp file is created, and the
\* response carries the empty recognized text.
C6_SilenceSkipsStages ==
    recognized = <<>> =>
        /\ calls = <<>>
        /\ attempts = <<>>
        /\ TempCount = 0
        /\ pc = "done" => response.recognized = <<>>

MissingCapabilityResponse ==
    \/ "missing_models" \in DOMAIN response
    \/ "error" \in DOMAIN response /\ response.error[1] = "Model not found"

\* C7: a missing-capability response (recognition model or translation
\* language) is given without audio having been captured or recognized.
C7_CapabilitiesCheckedBeforeCapture ==
    (pc = "done" /\ MissingCapabilityResponse) =>
        (~captured /\ recognized = NoText)

TranslationSucceeded == trOutcome \in {"identity", "direct", "pivot"}

\* C8: a response that carries translated text while no audio was played to
\* completion carries degraded = true.
C8_DegradedFlagged ==
    (pc = "done" /\ TranslationSucceeded /\ "translated" \in DOMAIN response
        /\ ~played) =>
        ("degraded" \in DOMAIN response /\ response.degraded = TRUE)

\* C9: the response carries the recognized text whenever recognition
\* completed, and the translated text whenever translation succeeded,
\* whatever happened in synthesis or playback afterwards.
C9_PartialResultsKept ==
    pc = "done" =>
        /\ recognized # NoText =>
              ("recognized" \in DOMAIN response /\ response.recognized = recognized)
        /\ TranslationSucceeded =>
              ("translated" \in DOMAIN response /\ response.translated = translated)

\* C10: when translation failed, the failure message is not passed to
\* speak_text, and the response carries the recognized text and an error and
\* carries no translated text.
C10_FailureNotTranslation ==
    trOutcome = "failed" =>
        /\ ~InSpeakText
        /\ pc = "done" =>
              /\ "error" \in DOMAIN response
              /\ "translated" \notin DOMAIN response
              /\ "recognized" \in DOMAIN response
              /\ response.recognized = recognized

-----------------------------------------------------------------------------
(* Properties of translate_text (under SpecTranslate) *)

\* translate_text(recognized, source_code, target_code) has returned
TranslateReturned == trOutcome # "none"

\* C11: translate_text called with the empty text returns the empty string
\* and invokes no translation capability.
C11_EmptyTextReturnsEmpty ==
    (TranslateReturned /\ recognized = <<>>) =>
        (translated = <<>> /\ calls = <<>>)

\* C12: when translate_text returns a failure after the direct attempt failed
\* (the two-step attempt failed too, or did not apply), the cause in the
\* returned failure is the direct attempt's error, not the two-step one's.
C12_FailureCarriesDirectError ==
    (TranslateReturned /\ trOutcome = "failed") =>
        /\ translated = FailedText("direct_error")
        /\ translated # FailedText("two_step_error")

\* the direct attempt and then the second hop of the two-step attempt failed
C12_Witness ==
    TranslateReturned /\ trOutcome = "failed" /\ Len(calls) = 3

\* C13: a result obtained through the two-step path comes from a call where
\* neither code is "en" and the direct attempt was made first; the first hop
\* is source->en on the text, the second hop is en->target on the first hop's
\* output, and the returned text is the second hop's output.  When the direct
\* attempt failed, neither code is "en" and "en" is installed, the first hop
\* was attempted.
C13_TwoHopChained ==
    /\ (TranslateReturned /\ trOutcome = "pivot") =>
          /\ source_code # "en" /\ target_code # "en"
          /\ Len(calls) = 3
          /\ calls[1] = Call(recognized, source_code, target_code)
          /\ calls[2] = Call(recognized, source_code, "en")
          /\ calls[3] = Call(Translate(recognized, source_code, "en"), "en", target_code)
          /\ translated = Translate(calls[3].text, "en", target_code)
    /\ (TranslateReturned /\ trOutcome = "failed" /\ source_code # "en"
           /\ target_code # "en" /\ "en" \in lang_dict) =>
          (Len(calls) >= 2 /\ calls[2] = Call(recognized, source_code, "en"))

C13_Witness ==
    /\ TranslateReturned /\ trOutcome = "pivot"
    /\ source_code = "hi" /\ target_code = "es"
    /\ recognized = <<"hello", "world">>

\* C14: one call of translate_text invokes the translation capability at most
\* three times: the direct source->target attempt first and once only; the
\* two hops only after the direct attempt failed with neither code "en", each
\* at most once, source->en before en->target.
C14_AtMostThreeCalls ==
    TranslateReturned =>
        /\ Len(calls) <= 3
        /\ Len(calls) >= 1 =>
              /\ calls[1].from = source_code /\ calls[1].to = target_code
              /\ \A i \in 2..Len(calls) :
                    ~(calls[i].from = source_code /\ calls[i].to = target_code)
        /\ Len(calls) >= 2 =>
              /\ source_code # "en" /\ target_code # "en"
              /\ trOutcome \in {"failed", "pivot"}
              /\ calls[2].from = source_code /\ calls[2].to = "en"
        /\ Len(calls) = 3 =>
              (calls[3].from = "en" /\ calls[3].to = target_code)
        /\ trOutcome = "direct" => Len(calls) = 1

\* the first hop failed: two invocations, no second hop, nothing retried
C14_Witness ==
    TranslateReturned /\ trOutcome = "failed" /\ Len(calls) = 2

\* C15: for a non-empty text and source # target, when the source or the
\* target code is not in lang_dict, translate_text returns the not-installed
\* failure naming a code that is missing and invokes no capability.
C15_MissingLanguageFails ==
    (TranslateReturned /\ recognized # <<>> /\ source_code # target_code
        /\ (source_code \notin lang_dict \/ target_code \notin lang_dict)) =>
        /\ trOutcome = "missing"
        /\ calls = <<>>
        /\ \E c \in {source_code, target_code} \ lang_dict :
              translated = NotInstalledText(c)

\* the source is installed and the target is not
C15_Witness ==
    /\ TranslateReturned /\ recognized # <<>> /\ source_code # target_code
    /\ source_code \in lang_dict /\ target_code \notin lang_dict
    /\ translated = NotInstalledText(target_code)

\* C16: for a non-empty text and source = target, whatever the code,
\* translate_text returns the text unchanged and invokes no capability.
C16_IdentityWhenSameLanguage ==
    (TranslateReturned /\ recognized # <<>> /\ source_code = target_code) =>
        (translated = recognized /\ calls = <<>>)

\* the same installed code on both sides
C16_Witness ==
    /\ TranslateReturned /\ recognized = <<"hello", "world">>
    /\ source_code = target_code /\ source_code \in lang_dict
    /\ translated = recognized

-----------------------------------------------------------------------------
(* Properties of speak_text called with any text (under SpecSpeak) *)

\* C17: speak_text called with the empty text returns at once (None): no
\* backend is invoked, no temp file is created, nothing is played and the
\* textual fallback is not printed.
C17_EmptyTextShortCircuits ==
    translated = <<>> =>
        /\ attempts = <<>>
        /\ fs = <<>>
        /\ plays = 0 /\ ~playing /\ ~played
        /\ ~printed
        /\ pc \in {"speak_text", "respond"}
        /\ pc = "respond" => ret = "None"

C17_Witness ==
    translated = <<>> /\ pc = "respond" /\ ret = "None" /\ fs = <<>>

-----------------------------------------------------------------------------
(* Properties of the handler and of the capture queue (under Spec) *)

\* C18: when a non-empty text was recognized, the direct translation
\* succeeded, a backend was verified and playback completed, the response is
\* exactly the recognized text and the direct translation's result: no error
\* and no degraded marking.
C18_HappyPathResponse ==
    (pc = "done" /\ recognized # NoText /\ recognized # <<>>
        /\ trOutcome = "direct" /\ SomeVerified /\ played) =>
        /\ response = [recognized |-> recognized,
                       translated |-> Translate(recognized, source_code, target_code)]
        /\ "error" \notin DOMAIN response
        /\ "degraded" \notin DOMAIN response

C18_Witness ==
    /\ pc = "done" /\ recognized = <<"hello">>
    /\ source_code = "en" /\ target_code = "hi"
    /\ trOutcome = "direct" /\ SomeVerified /\ played
    /\ response.translated = <<"hello", "en", "hi">>

\* C19: the recognizer of a session is fed only frames captured during that
\* session: q.get() never hands it a frame that an earlier session left in
\* the queue.
C19_SessionsIsolated ==
    [][(pc = "listening" /\ pc' = "accept") => Head(q) = "cur"]_vars

\* C20: the capture queue is bounded: whenever it holds frames it has a
\* positive capacity, and its length does not exceed that capacity (the
\* callback's put blocks at it).
C20_BoundedQueue ==
    q # <<>> => (QueueMaxsize > 0 /\ Len(q) <= QueueMaxsize)

-----------------------------------------------------------------------------
(* Properties of playback inside speak_text (under SpecSpeak) *)

\* C21: the artifact is played at most once; while playback is in progress
\* speak_text is in its wait loop (it has not returned) and the artifact is
\* on disk; the artifact is on disk when playback is about to start; and
\* once playback was started the artifact is gone only after playback has
\* completed or failed.
C21_PlayedOnceThenDeleted ==
    /\ plays <= 1
    /\ playing => (pc = "play_wait" /\ Exists(fs, "wav"))
    /\ ret # "unset" => ~playing
    /\ (pc = "play" /\ tts_success) => Exists(fs, "wav")
    /\ (plays = 1 /\ ~Exists(fs, "wav")) =>
          /\ played \/ ~tts_success
          /\ pc \in {"fallback", "respond"}

\* played to the end, then deleted, then returned
C21_Witness ==
    /\ pc = "respond" /\ ret = "True"
    /\ plays = 1 /\ played /\ ~playing
    /\ ~Exists(fs, "wav")

\* C24: for a non-empty text, speak_text returns True exactly when some
\* backend was verified and playback then ran to completion; a verified
\* synthesis whose playback raised gives False; and the textual fallback is
\* printed exactly when the result is False.
C24_ReturnValue ==
    (pc = "respond" /\ translated # <<>>) =>
        /\ ret \in {"True", "False"}
        /\ ret = "True" <=> (SomeVerified /\ played)
        /\ (SomeVerified /\ ~played) => (plays = 1 /\ ret = "False")
        /\ printed <=> ret = "False"

\* a backend was verified, playback raised: False, and the text was printed
C24_Witness ==
    /\ pc = "respond" /\ translated # <<>>
    /\ SomeVerified /\ plays = 1 /\ ~played
    /\ ret = "False" /\ printed

-----------------------------------------------------------------------------
(* Properties of the capability table (under Spec) *)

\* C23: no step of any handler (/translate, /check_models, /check_espeak)
\* changes lang_dict: its set of codes stays what initialisation made it.
C23_LangDictNeverMutated ==
    [][lang_dict' = lang_dict]_vars

\* a request went through the two-step attempt with "en" not installed:
\* lang_dict["en"] was subscripted and the table still lacks "en"
C23_Witness ==
    /\ pc = "done" /\ trOutcome = "failed" /\ Len(calls) = 1
    /\ PivotApplicable(source_code, target_code)
    /\ "en" \notin lang_dict

-----------------------------------------------------------------------------
(* Termination of a request (under SpecLive) *)

InCaptureLoop == pc \in {"listening", "accept"}

\* C22: with frames arriving, the recognizer eventually reporting a boundary
\* and every backend call and the playback terminating, a request that was
\* received is eventually answered; and the capture loop has no other exit
\* than the boundary: a step that leaves it is the step on which the
\* recognizer reported one, so without a boundary the request stays there.
C22_RespondsIfBoundary ==
    /\ (pc = "check_model") ~> (pc = "done")
    /\ [][(InCaptureLoop /\ ~InCaptureLoop') =>
             (pc = "accept" /\ pc' = "check_langs" /\ ~streamOpen')]_vars

\* a request that went through the capture loop and the playback wait has
\* been answered
C22_Witness ==
    /\ pc = "done" /\ captured /\ ~streamOpen
    /\ recognized # NoText /\ played
    /\ response # NoResponse

====
